---------------------------- MODULE Spec2Model ----------------------------
(***************************************************************************)
(* Voice subsystem of the tutoring front end:                              *)
(*   - useWebSpeechRecognition (speech capture hook),                      *)
(*   - useEnhancedTextToSpeech (backend audio with synthesis fallback),    *)
(*   - VoiceInteraction inside VoiceEnabledChat (the composition).         *)
(* Strings are TLA+ strings, string concatenation is \o.  Rates, pitches   *)
(* and volumes are in tenths (0.8 is 8).                                   *)
(***************************************************************************)
EXTENDS Integers, Sequences, FiniteSets, TLC

\* ------------------------------------------------------------------ bounds
\* speak() invocations in one run
MaxCalls == 2
\* presses of a message's speak button in one run of the chat
MaxChatCalls == 1
\* results delivered by the recognizer between two resets of the transcripts
MaxSegments == 3
\* transcripts the voice panel hands to its consumer in one capture session
MaxDeliveries == 2
\* voices in the platform's voice list
MaxVoices == 2
MaxLegacyCalls == 2
MaxRecordings == 2
MaxMessages == 2
MaxLoads == 2
MaxExercises == 3

VARIABLES
  \* platform
  hasRecognition,     \* window.SpeechRecognition || window.webkitSpeechRecognition
  recState,           \* the platform recognizer: idle, starting, listening, stopping, failed
  recLang,            \* recognition.lang
  \* useWebSpeechRecognition
  mounted,            \* the initialising effect has run
  isSupported,
  isListening,
  transcript,
  interimTranscript,
  speechError,        \* the hook's error
  finalTranscriptRef,
  \* platform, text to speech
  hasSynthesis,       \* 'speechSynthesis' in window
  voices,             \* speechSynthesis.getVoices(): empty until the platform has loaded them
  synthQueue,         \* speechSynthesis' utterance queue (call ids); its head is being spoken
  \* useEnhancedTextToSpeech
  isSpeaking,
  ttsError,           \* the hook's error
  audioRef,           \* audioRef.current: the call whose Audio it holds, 0 for null
  calls,              \* the speak() invocations, in call order
  \* VoiceInteraction and VoiceEnabledChat
  language,           \* the language selector of the voice panel
  isLoading,          \* a chat request is in flight; the panel's disabled prop
  delivered,          \* the arguments of onTranscriptReceived since the last accepted start
  \* useTextToSpeech (legacy hook) and the platform's synthesis queue as it uses it
  legacyIsSpeaking,
  legacyAudioRef,     \* audioRef.current: the call whose Audio it holds, 0 for null
  legacyCalls,        \* the speak() invocations of the legacy hook, in call order
  legacyQueue,        \* the utterances it has queued (call ids); the head is being spoken
  \* useSpeechRecognition (server-side capture hook)
  isRecording,
  isProcessing,
  mediaRecorderRef,   \* mediaRecorderRef.current: the recording it holds, 0 for null
  recordings,         \* the startRecording() invocations, in call order
  \* App
  messages,           \* the chat messages, oldest first
  inputMessage,
  appIsLoading,       \* isLoading of App
  requests,           \* the apiService.sendMessage calls, in call order
  voiceClosures,      \* per recording, the isLoading its stop click rendered with
  \* LessonPanel, with the currentLesson App holds for it
  currentLesson,      \* the load the lesson came from, 0 for null
  exercises,
  currentExercise,
  userAnswers,        \* the exercise ids that have an answer
  loading,
  showResults,
  lessonLoads,        \* the startLesson() invocations: where each one is
  \* history
  finals,             \* final segments delivered since the transcripts were last reset
  nsegs,              \* results received since the transcripts were last reset
  lastInterims,       \* the non-final segments of the latest result event
  scen                \* progress through the scenario "hel", "hello wor", "hello world"

captureVars == <<hasRecognition, recState, recLang, mounted, isSupported, isListening,
                 transcript, interimTranscript, speechError, finalTranscriptRef,
                 finals, nsegs, lastInterims, scen>>

ttsVars == <<hasSynthesis, voices, synthQueue, isSpeaking, ttsError, audioRef, calls>>

panelVars == <<language, isLoading, delivered>>

\* the legacy hook useTextToSpeech of App and VocabularyPanel
legacyVars == <<legacyIsSpeaking, legacyAudioRef, legacyCalls, legacyQueue>>

\* the state of the components outside the voice subsystem
\* the hook useSpeechRecognition of App
recorderVars == <<isRecording, isProcessing, mediaRecorderRef, recordings>>

\* the chat of App
appVars == <<messages, inputMessage, appIsLoading, requests, voiceClosures>>

\* LessonPanel
lessonVars == <<currentLesson, exercises, currentExercise, userAnswers, loading,
                showResults, lessonLoads>>

otherVars == <<legacyVars, recorderVars, appVars, lessonVars>>

voiceVars == <<captureVars, ttsVars, panelVars>>

vars == <<captureVars, ttsVars, panelVars, otherVars>>

\* ------------------------------------------------------------ capture data
NULL == "null"

Texts == {"hel", "hello wor", "hello world"}

Languages == {"en-US", "te-IN"}

\* the options of the panel's language selector
PanelLanguages == {"en-US", "en-IN", "te-IN"}

\* SpeechRecognitionResult: the first alternative's transcript and isFinal
Segments == [transcript : Texts, isFinal : BOOLEAN]

\* SpeechRecognitionEvent: results and resultIndex (0-based, as in the source),
\* with at most max results
Events(max) ==
  UNION { [results : [1..n -> Segments], resultIndex : 0..(n - 1)] : n \in 1..max }

\* SpeechRecognitionErrorEvent.error
ErrorCodes ==
  {"no-speech", "audio-capture", "not-allowed", "network", "aborted", "service-not-allowed"}

MsgUnsupportedBrowser ==
  "Speech recognition not supported in this browser. Please use Chrome, Edge, or Safari."
MsgUnsupported == "Speech recognition not supported"
MsgStartFailed == "Failed to start speech recognition"
MsgNoMatch == "Could not understand the speech. Please try again."

\* the switch of recognition.onerror
ErrorMessage(code) ==
  CASE code = "no-speech" -> "No speech detected. Please try again."
    [] code = "audio-capture" -> "Microphone access denied or not available."
    [] code = "not-allowed" -> "Microphone permission denied. Please allow microphone access."
    [] code = "network" -> "Network error. Please check your internet connection."
    [] OTHER -> "Speech recognition error: " \o code

\* the loop with "finalTranscript = transcript" in place of "finalTranscript += transcript"
RECURSIVE onresultLoopAssign(_, _, _, _)
onresultLoopAssign(results, i, finalTranscript, interim) ==
  IF i > Len(results)
  THEN [finalTranscript |-> finalTranscript, interimTranscript |-> interim]
  ELSE IF results[i].isFinal
       THEN onresultLoopAssign(results, i + 1, results[i].transcript, interim)
       ELSE onresultLoopAssign(results, i + 1, finalTranscript, interim \o results[i].transcript)

\* the for loop of recognition.onresult, from (1-based) position i
RECURSIVE onresultLoop(_, _, _, _)
onresultLoop(results, i, finalTranscript, interim) ==
  IF i > Len(results)
  THEN [finalTranscript |-> finalTranscript, interimTranscript |-> interim]
  ELSE IF results[i].isFinal
       THEN onresultLoop(results, i + 1, finalTranscript \o results[i].transcript, interim)
       ELSE onresultLoop(results, i + 1, finalTranscript, interim \o results[i].transcript)

\* ---------------------------------------------------- history bookkeeping
RECURSIVE ConcatAll(_)
ConcatAll(ss) == IF ss = <<>> THEN "" ELSE Head(ss) \o ConcatAll(Tail(ss))

\* the results an event newly reports: those from resultIndex on
NewResults(ev) == SubSeq(ev.results, ev.resultIndex + 1, Len(ev.results))

IsFinalSeg(s) == s.isFinal
IsInterimSeg(s) == ~s.isFinal
TextsOf(segs) == [k \in 1..Len(segs) |-> segs[k].transcript]
NewFinals(ev) == TextsOf(SelectSeq(NewResults(ev), IsFinalSeg))
NewInterims(ev) == TextsOf(SelectSeq(NewResults(ev), IsInterimSeg))

Interim(t) == [results |-> <<[transcript |-> t, isFinal |-> FALSE]>>, resultIndex |-> 0]
Final(t) == [results |-> <<[transcript |-> t, isFinal |-> TRUE]>>, resultIndex |-> 0]

\* scenario monitor: 0 fresh session, 1 after "hel", 2 after "hello wor",
\* 3 after the final "hello world", 4 any other history
ScenNext(s, ev) ==
  CASE s = 0 /\ ev = Interim("hel") -> 1
    [] s = 1 /\ ev = Interim("hello wor") -> 2
    [] s = 2 /\ ev = Final("hello world") -> 3
    [] OTHER -> 4

\* --------------------------------------------------------------- capture
\* the message initializeApp() has put in the chat when the first render is done
WelcomeMessage == [type |-> "tutor", kind |-> "welcome", req |-> 0]

Init ==
  /\ hasRecognition \in BOOLEAN
  /\ recState = "idle"
  /\ recLang = NULL
  /\ mounted = FALSE
  /\ isSupported = FALSE
  /\ isListening = FALSE
  /\ transcript = ""
  /\ interimTranscript = ""
  /\ speechError = NULL
  /\ finalTranscriptRef = ""
  /\ hasSynthesis \in BOOLEAN
  /\ voices = <<>>
  /\ synthQueue = <<>>
  /\ isSpeaking = FALSE
  /\ ttsError = NULL
  /\ audioRef = 0
  /\ calls = <<>>
  /\ language = "en-US"
  /\ isLoading = FALSE
  /\ delivered = <<>>
  /\ legacyIsSpeaking = FALSE
  /\ legacyAudioRef = 0
  /\ legacyCalls = <<>>
  /\ legacyQueue = <<>>
  /\ isRecording = FALSE
  /\ isProcessing = FALSE
  /\ mediaRecorderRef = 0
  /\ recordings = <<>>
  /\ messages = <<WelcomeMessage>>
  /\ inputMessage = ""
  /\ appIsLoading = FALSE
  /\ requests = <<>>
  /\ voiceClosures = [r \in 1..MaxRecordings |-> FALSE]
  /\ currentLesson = 0
  /\ exercises = <<>>
  /\ currentExercise = 0
  /\ userAnswers = {}
  /\ loading = FALSE
  /\ showResults = FALSE
  /\ lessonLoads = <<>>
  /\ finals = <<>>
  /\ nsegs = 0
  /\ lastInterims = <<>>
  /\ scen = 0

\* the effect without the test for the SpeechRecognition constructor
MountAssumesSupport ==
  /\ ~mounted
  /\ mounted' = TRUE
  /\ isSupported' = TRUE
  /\ recLang' = "en-US"
  /\ UNCHANGED speechError
  /\ UNCHANGED ttsVars
  /\ UNCHANGED <<hasRecognition, recState, isListening, transcript, interimTranscript,
                 finalTranscriptRef, finals, nsegs, lastInterims, scen>>

\* the effect of useWebSpeechRecognition, run once after the first render
Mount ==
  /\ ~mounted
  /\ mounted' = TRUE
  /\ IF hasRecognition
     THEN /\ isSupported' = TRUE
          /\ recLang' = "en-US"
          /\ UNCHANGED speechError
     ELSE /\ isSupported' = FALSE
          /\ speechError' = MsgUnsupportedBrowser
          /\ UNCHANGED recLang
  /\ UNCHANGED ttsVars
  /\ UNCHANGED <<hasRecognition, recState, isListening, transcript, interimTranscript,
                 finalTranscriptRef, finals, nsegs, lastInterims, scen>>

onstart ==
  /\ mounted /\ recState = "starting"
  /\ recState' = "listening"
  /\ isListening' = TRUE
  /\ speechError' = NULL
  /\ UNCHANGED ttsVars
  /\ UNCHANGED <<hasRecognition, recLang, mounted, isSupported, transcript,
                 interimTranscript, finalTranscriptRef, finals, nsegs, lastInterims, scen>>

\* onend starting the recognizer again after a failed session
onendRestarts ==
  /\ mounted /\ recState \in {"listening", "stopping", "failed"}
  /\ recState' = IF recState = "failed" THEN "starting" ELSE "idle"
  /\ isListening' = FALSE
  /\ UNCHANGED ttsVars
  /\ UNCHANGED <<hasRecognition, recLang, mounted, isSupported, transcript,
                 interimTranscript, speechError, finalTranscriptRef, finals, nsegs, lastInterims, scen>>

\* onend without setIsListening(false)
onendKeepListening ==
  /\ mounted /\ recState \in {"listening", "stopping", "failed"}
  /\ recState' = "idle"
  /\ UNCHANGED ttsVars
  /\ UNCHANGED <<hasRecognition, recLang, mounted, isSupported, isListening, transcript,
                 interimTranscript, speechError, finalTranscriptRef, finals, nsegs, lastInterims, scen>>

onend ==
  /\ mounted /\ recState \in {"listening", "stopping", "failed"}
  /\ recState' = "idle"
  /\ isListening' = FALSE
  /\ UNCHANGED ttsVars
  /\ UNCHANGED <<hasRecognition, recLang, mounted, isSupported, transcript,
                 interimTranscript, speechError, finalTranscriptRef, finals, nsegs, lastInterims, scen>>

\* onresult with the interim text carried over from the previous event
onresultCarryInterim(ev) ==
  /\ mounted /\ recState \in {"listening", "stopping"}
  /\ nsegs + Len(ev.results) <= MaxSegments
  /\ LET r == onresultLoop(ev.results, ev.resultIndex + 1, finalTranscriptRef,
                           interimTranscript)
     IN /\ finalTranscriptRef' = r.finalTranscript
        /\ transcript' = r.finalTranscript
        /\ interimTranscript' = r.interimTranscript
  /\ finals' = finals \o NewFinals(ev)
  /\ nsegs' = nsegs + Len(ev.results)
  /\ lastInterims' = NewInterims(ev)
  /\ scen' = ScenNext(scen, ev)
  /\ UNCHANGED ttsVars
  /\ UNCHANGED <<hasRecognition, recState, recLang, mounted, isSupported, isListening,
                 speechError>>

onresult(ev) ==
  /\ mounted /\ recState \in {"listening", "stopping"}
  /\ nsegs + Len(ev.results) <= MaxSegments
  /\ LET r == onresultLoop(ev.results, ev.resultIndex + 1, finalTranscriptRef, "")
     IN /\ finalTranscriptRef' = r.finalTranscript
        /\ transcript' = r.finalTranscript
        /\ interimTranscript' = r.interimTranscript
  /\ finals' = finals \o NewFinals(ev)
  /\ nsegs' = nsegs + Len(ev.results)
  /\ lastInterims' = NewInterims(ev)
  /\ scen' = ScenNext(scen, ev)
  /\ UNCHANGED ttsVars
  /\ UNCHANGED <<hasRecognition, recState, recLang, mounted, isSupported, isListening,
                 speechError>>

\* onerror without setIsListening(false)
onerrorKeepListening(code) ==
  /\ mounted /\ recState \in {"starting", "listening", "stopping"}
  /\ recState' = "failed"
  /\ speechError' = ErrorMessage(code)
  /\ UNCHANGED ttsVars
  /\ UNCHANGED <<hasRecognition, recLang, mounted, isSupported, isListening, transcript,
                 interimTranscript, finalTranscriptRef, finals, nsegs, lastInterims, scen>>

onerror(code) ==
  /\ mounted /\ recState \in {"starting", "listening", "stopping"}
  /\ recState' = "failed"
  /\ speechError' = ErrorMessage(code)
  /\ isListening' = FALSE
  /\ UNCHANGED ttsVars
  /\ UNCHANGED <<hasRecognition, recLang, mounted, isSupported, transcript,
                 interimTranscript, finalTranscriptRef, finals, nsegs, lastInterims, scen>>

onnomatch ==
  /\ mounted /\ recState \in {"listening", "stopping"}
  /\ speechError' = MsgNoMatch
  /\ UNCHANGED ttsVars
  /\ UNCHANGED <<hasRecognition, recState, recLang, mounted, isSupported, isListening,
                 transcript, interimTranscript, finalTranscriptRef, finals, nsegs, lastInterims, scen>>

\* the reset and start of startListening, lines 111-126
StartBody(lang) ==
  /\ finalTranscriptRef' = ""
  /\ transcript' = ""
  /\ interimTranscript' = ""
  /\ finals' = <<>>
  /\ nsegs' = 0
  /\ lastInterims' = <<>>
  /\ scen' = 0
  /\ IF hasRecognition
     THEN /\ recLang' = lang
          /\ IF recState = "idle"
             THEN /\ recState' = "starting"
                  /\ speechError' = NULL
             ELSE /\ speechError' = MsgStartFailed
                  /\ UNCHANGED recState
     ELSE /\ speechError' = NULL
          /\ UNCHANGED <<recLang, recState>>
  /\ UNCHANGED <<hasRecognition, mounted, isSupported, isListening>>

\* startListening without the isListening check
startListeningWhileListening(lang) ==
  /\ mounted
  /\ UNCHANGED ttsVars
  /\ IF ~isSupported
     THEN /\ speechError' = MsgUnsupported
          /\ UNCHANGED <<hasRecognition, recState, recLang, mounted, isSupported,
                         isListening, transcript, interimTranscript, finalTranscriptRef,
                         finals, nsegs, lastInterims, scen>>
     ELSE StartBody(lang)

\* startListening without the isSupported check
startListeningUnsupported(lang) ==
  /\ mounted
  /\ UNCHANGED ttsVars
  /\ IF isListening
     THEN UNCHANGED captureVars
     ELSE StartBody(lang)

startListening(lang) ==
  /\ mounted
  /\ UNCHANGED ttsVars
  /\ IF ~isSupported
     THEN /\ speechError' = MsgUnsupported
          /\ UNCHANGED <<hasRecognition, recState, recLang, mounted, isSupported,
                         isListening, transcript, interimTranscript, finalTranscriptRef,
                         finals, nsegs, lastInterims, scen>>
     ELSE IF isListening
     THEN UNCHANGED captureVars
     ELSE /\ finalTranscriptRef' = ""
          /\ transcript' = ""
          /\ interimTranscript' = ""
          /\ finals' = <<>>
          /\ nsegs' = 0
          /\ lastInterims' = <<>>
          /\ scen' = 0
          /\ recLang' = lang
          \* recognition.start() throws InvalidStateError unless the recognizer is idle
          /\ IF recState = "idle"
             THEN /\ recState' = "starting"
                  /\ speechError' = NULL
             ELSE /\ speechError' = MsgStartFailed
                  /\ UNCHANGED recState
          /\ UNCHANGED <<hasRecognition, mounted, isSupported, isListening>>

\* stopListening without the isListening check
stopListeningAlways ==
  /\ mounted
  /\ UNCHANGED ttsVars
  /\ IF hasRecognition
     THEN /\ recState' = IF recState \in {"starting", "listening"} THEN "stopping" ELSE recState
          /\ UNCHANGED <<hasRecognition, recLang, mounted, isSupported, isListening,
                         transcript, interimTranscript, speechError, finalTranscriptRef,
                         finals, nsegs, lastInterims, scen>>
     ELSE UNCHANGED captureVars

stopListening ==
  /\ mounted
  /\ UNCHANGED ttsVars
  /\ IF hasRecognition /\ isListening
     THEN /\ recState' = IF recState = "listening" THEN "stopping" ELSE recState
          /\ UNCHANGED <<hasRecognition, recLang, mounted, isSupported, isListening,
                         transcript, interimTranscript, speechError, finalTranscriptRef,
                         finals, nsegs, lastInterims, scen>>
     ELSE UNCHANGED captureVars

\* resetTranscript without setError(null)
resetTranscriptKeepError ==
  /\ mounted
  /\ finalTranscriptRef' = ""
  /\ transcript' = ""
  /\ interimTranscript' = ""
  /\ finals' = <<>>
  /\ nsegs' = 0
  /\ lastInterims' = <<>>
  /\ scen' = 0
  /\ UNCHANGED ttsVars
  /\ UNCHANGED <<hasRecognition, recState, recLang, mounted, isSupported, isListening,
                 speechError>>

resetTranscript ==
  /\ mounted
  /\ finalTranscriptRef' = ""
  /\ transcript' = ""
  /\ interimTranscript' = ""
  /\ speechError' = NULL
  /\ finals' = <<>>
  /\ nsegs' = 0
  /\ lastInterims' = <<>>
  /\ scen' = 0
  /\ UNCHANGED ttsVars
  /\ UNCHANGED <<hasRecognition, recState, recLang, mounted, isSupported, isListening>>

NextCapture ==
  \/ Mount /\ UNCHANGED panelVars /\ UNCHANGED otherVars
  \/ onstart /\ UNCHANGED panelVars /\ UNCHANGED otherVars
  \/ onend /\ UNCHANGED panelVars /\ UNCHANGED otherVars
  \/ \E ev \in Events(MaxSegments - nsegs) : onresult(ev) /\ UNCHANGED panelVars /\ UNCHANGED otherVars
  \/ \E code \in ErrorCodes : onerror(code) /\ UNCHANGED panelVars /\ UNCHANGED otherVars
  \/ onnomatch /\ UNCHANGED panelVars /\ UNCHANGED otherVars
  \/ \E lang \in Languages : startListening(lang) /\ UNCHANGED panelVars /\ UNCHANGED otherVars
  \/ stopListening /\ UNCHANGED panelVars /\ UNCHANGED otherVars
  \/ resetTranscript /\ UNCHANGED panelVars /\ UNCHANGED otherVars

InitCapture == Init /\ hasSynthesis = TRUE

SpecCapture == InitCapture /\ [][NextCapture]_vars

\* ------------------------------------------------------ text to speech data
\* the defaults of speak()'s options
DefaultOptions ==
  [languageCode |-> "en-US", rate |-> 8, pitch |-> 10, volume |-> 10, useBackend |-> TRUE]

\* the destructuring of options at the head of speak()
WithDefaults(options) ==
  [k \in DOMAIN DefaultOptions |->
     IF k \in DOMAIN options THEN options[k] ELSE DefaultOptions[k]]

\* speak(text, options) as the application and its guide call it
SpeakInputs ==
  { [text |-> "Hi",
     options |-> [languageCode |-> "en-US", rate |-> 8, useBackend |-> TRUE]],
    [text |-> "Fallback speech",
     options |-> [useBackend |-> FALSE]],
    [text |-> "Namaste",
     options |-> [languageCode |-> "te-IN", rate |-> 10, pitch |-> 12, volume |-> 5]] }

\* how the render request of one call turns out: fetch rejects, the status is not
\* a success, response.json() or the decoding of audio_content throws, the result
\* has no audio_content, or an audio is obtained
BackendFailures == {"network-error", "not-ok", "bad-payload", "no-audio"}
BackendOutcomes == BackendFailures \cup {"audio"}

MsgTtsUnsupported == "Text-to-speech not supported in this browser"
TtsErrorMessage(code) == "TTS Error: " \o code

\* the utterance with the default language in place of languageCode
NewUtteranceDefaultLang(text, opts) ==
  [text |-> text, lang |-> "en-US", rate |-> opts.rate,
   pitch |-> opts.pitch, volume |-> opts.volume]

\* new SpeechSynthesisUtterance(text) and the four assignments after it
NewUtterance(text, opts) ==
  [text |-> text, lang |-> opts.languageCode, rate |-> opts.rate,
   pitch |-> opts.pitch, volume |-> opts.volume]

\* SpeechSynthesisVoice: lang and name
PlatformVoices ==
  { [lang |-> "en-US", name |-> "Samantha"],
    [lang |-> "en-US", name |-> "Google US English"],
    [lang |-> "en-GB", name |-> "Daniel"],
    [lang |-> "te-IN", name |-> "Lekha"],
    [lang |-> "te-IN", name |-> "Google Telugu"],
    [lang |-> "fr-FR", name |-> "Google French"] }

\* the lists getVoices() can return
VoiceLists == UNION { [1..n -> PlatformVoices] : n \in 0..MaxVoices }

\* utterance.voice left unset: the platform's default voice
NoVoice == [lang |-> "", name |-> ""]

\* String.prototype.startsWith and includes
StartsWith(str, prefix) ==
  Len(str) >= Len(prefix) /\ SubSeq(str, 1, Len(prefix)) = prefix

Includes(str, sub) ==
  \E i \in 1..(Len(str) - Len(sub) + 1) : SubSeq(str, i, i + Len(sub) - 1) = sub

\* languageCode.substring(0, 2)
LangPrefix(languageCode) ==
  SubSeq(languageCode, 1, IF Len(languageCode) < 2 THEN Len(languageCode) ELSE 2)

\* Array.prototype.find: the first element satisfying P, NoVoice for undefined
Find(vs, P(_)) ==
  IF \E i \in 1..Len(vs) : P(vs[i])
  THEN vs[CHOOSE i \in 1..Len(vs) : P(vs[i]) /\ \A j \in 1..(i - 1) : ~P(vs[j])]
  ELSE NoVoice

\* the selection taking the first voice of the language, whatever its name
preferredVoiceFirstMatch(vs, languageCode) ==
  LET Matches(v) == StartsWith(v.lang, LangPrefix(languageCode))
  IN Find(vs, Matches)

\* preferredVoice: voices.find(... && name.includes('Google')) || voices.find(...)
preferredVoice(vs, languageCode) ==
  LET Matches(v) == StartsWith(v.lang, LangPrefix(languageCode))
      Quality(v) == Matches(v) /\ Includes(v.name, "Google")
  IN IF Find(vs, Quality) # NoVoice THEN Find(vs, Quality) ELSE Find(vs, Matches)

\* a call that has created no utterance
NoUtterance == [text |-> "", lang |-> "", rate |-> 0, pitch |-> 0, volume |-> 0]

NewCall(in) ==
  [text |-> in.text, opts |-> WithDefaults(in.options), pc |-> "fetch",
   audio |-> "none", url |-> "none", utterance |-> NoUtterance, voice |-> NoVoice,
   utt |-> "none"]

CallIds == 1..Len(calls)

\* the backend audios that are sounding, and the utterance being spoken
PlayingAudios == {c \in CallIds : calls[c].audio = "playing"}
SpokenUtterances == IF synthQueue = <<>> THEN {} ELSE {Head(synthQueue)}

\* --------------------------------------------------------- text to speech
\* the synthesis branch of speak() for call c, with cs, speaking and err the values
\* the earlier part of the same step has produced
BrowserFallback(c, cs, speaking, err) ==
  IF hasSynthesis
  THEN /\ calls' = [cs EXCEPT ![c].utterance = NewUtterance(cs[c].text, cs[c].opts),
                              ![c].voice = preferredVoice(voices, cs[c].opts.languageCode),
                              ![c].utt = "queued",
                              ![c].pc = "done"]
       /\ synthQueue' = Append(synthQueue, c)
       /\ isSpeaking' = speaking
       /\ ttsError' = err
  ELSE \* throw, caught by the outer catch
       /\ calls' = [cs EXCEPT ![c].pc = "done"]
       /\ ttsError' = MsgTtsUnsupported
       /\ isSpeaking' = FALSE
       /\ UNCHANGED synthQueue

\* speak() taking the backend branch whatever useBackend says
speakAlwaysBackend(in) ==
  /\ Len(calls) < MaxCalls
  /\ calls' = Append(calls, NewCall(in))
  /\ isSpeaking' = TRUE
  /\ ttsError' = NULL
  /\ UNCHANGED <<hasSynthesis, voices, audioRef, synthQueue>>
  /\ UNCHANGED captureVars

\* speak(text, options) up to its first await
speak(in) ==
  /\ Len(calls) < MaxCalls
  /\ LET c == Len(calls) + 1
         cs == Append(calls, NewCall(in))
     IN IF cs[c].opts.useBackend
        THEN /\ calls' = cs
             /\ isSpeaking' = TRUE
             /\ ttsError' = NULL
             /\ UNCHANGED synthQueue
        ELSE BrowserFallback(c, cs, TRUE, NULL)
  /\ UNCHANGED <<hasSynthesis, voices, audioRef>>
  /\ UNCHANGED captureVars

\* the continuation with the inner catch reporting the backend failure through setError
backendRespondsSetsError(c, outcome) ==
  /\ c \in CallIds /\ calls[c].pc = "fetch"
  /\ IF outcome = "audio"
     THEN /\ calls' = [calls EXCEPT ![c].audio = "loading", ![c].url = "live",
                                    ![c].pc = "play"]
          /\ audioRef' = c
          /\ UNCHANGED <<synthQueue, isSpeaking, ttsError>>
     ELSE /\ BrowserFallback(c, calls, isSpeaking, "Backend TTS failed")
          /\ UNCHANGED audioRef
  /\ UNCHANGED <<hasSynthesis, voices>>
  /\ UNCHANGED captureVars

\* the continuation of speak() after fetch and response.json() have settled
backendResponds(c, outcome) ==
  /\ c \in CallIds /\ calls[c].pc = "fetch"
  /\ IF outcome = "audio"
     THEN /\ calls' = [calls EXCEPT ![c].audio = "loading", ![c].url = "live",
                                    ![c].pc = "play"]
          /\ audioRef' = c
          /\ UNCHANGED <<synthQueue, isSpeaking, ttsError>>
     ELSE /\ BrowserFallback(c, calls, isSpeaking, ttsError)
          /\ UNCHANGED audioRef
  /\ UNCHANGED <<hasSynthesis, voices>>
  /\ UNCHANGED captureVars

\* audio.play() resolves: playback has begun, speak() returns
playResolves(c) ==
  /\ c \in CallIds /\ calls[c].pc = "play" /\ calls[c].audio = "loading"
  /\ calls' = [calls EXCEPT ![c].audio = "playing", ![c].pc = "done"]
  /\ UNCHANGED <<hasSynthesis, voices, synthQueue, isSpeaking, ttsError, audioRef>>
  /\ UNCHANGED captureVars

\* audio.play() rejects: the platform refused to start (loading), pause() aborted it
\* (paused) or the resource failed to load (error); the inner catch falls through
playRejects(c) ==
  /\ c \in CallIds /\ calls[c].pc = "play"
  /\ calls[c].audio \in {"loading", "paused", "error"}
  /\ LET cs == [calls EXCEPT ![c].audio = IF @ = "loading" THEN "blocked" ELSE @]
     IN BrowserFallback(c, cs, isSpeaking, ttsError)
  /\ UNCHANGED <<hasSynthesis, voices, audioRef>>
  /\ UNCHANGED captureVars

audioOnended(c) ==
  /\ c \in CallIds /\ calls[c].audio = "playing"
  /\ isSpeaking' = FALSE
  /\ calls' = [calls EXCEPT ![c].audio = "ended", ![c].url = "revoked"]
  /\ UNCHANGED <<hasSynthesis, voices, synthQueue, ttsError, audioRef>>
  /\ UNCHANGED captureVars

\* the throw inside the handler is outside every try block of speak()
audioOnerror(c) ==
  /\ c \in CallIds /\ calls[c].audio \in {"loading", "playing"}
  /\ isSpeaking' = FALSE
  /\ calls' = [calls EXCEPT ![c].audio = "error", ![c].url = "revoked"]
  /\ UNCHANGED <<hasSynthesis, voices, synthQueue, ttsError, audioRef>>
  /\ UNCHANGED captureVars

\* utterance.onend without setIsSpeaking(false)
utteranceOnendKeepSpeaking(c) ==
  /\ c \in CallIds
  /\ \/ calls[c].utt = "queued" /\ c \in SpokenUtterances
     \/ calls[c].utt = "cancelling"
  /\ calls' = [calls EXCEPT ![c].utt = IF @ = "queued" THEN "ended" ELSE "cancelled"]
  /\ synthQueue' = IF calls[c].utt = "queued" THEN Tail(synthQueue) ELSE synthQueue
  /\ UNCHANGED <<hasSynthesis, voices, isSpeaking, ttsError, audioRef>>
  /\ UNCHANGED captureVars

utteranceOnend(c) ==
  /\ c \in CallIds
  /\ \/ calls[c].utt = "queued" /\ c \in SpokenUtterances
     \/ calls[c].utt = "cancelling"
  /\ isSpeaking' = FALSE
  /\ calls' = [calls EXCEPT ![c].utt = IF @ = "queued" THEN "ended" ELSE "cancelled"]
  /\ synthQueue' = IF calls[c].utt = "queued" THEN Tail(synthQueue) ELSE synthQueue
  /\ UNCHANGED <<hasSynthesis, voices, ttsError, audioRef>>
  /\ UNCHANGED captureVars

\* event.error is synthesis-failed for an utterance that fails while spoken, and
\* interrupted for one removed by speechSynthesis.cancel()
utteranceOnerror(c) ==
  /\ c \in CallIds
  /\ \/ calls[c].utt = "queued" /\ c \in SpokenUtterances
     \/ calls[c].utt = "cancelling"
  /\ isSpeaking' = FALSE
  /\ ttsError' = TtsErrorMessage(IF calls[c].utt = "queued" THEN "synthesis-failed"
                                                              ELSE "interrupted")
  /\ calls' = [calls EXCEPT ![c].utt = IF @ = "queued" THEN "failed" ELSE "cancelled"]
  /\ synthQueue' = IF calls[c].utt = "queued" THEN Tail(synthQueue) ELSE synthQueue
  /\ UNCHANGED <<hasSynthesis, voices, audioRef>>
  /\ UNCHANGED captureVars

\* audioRef.current.pause()
Pause(cs, c) ==
  IF c = 0 THEN cs
  ELSE [cs EXCEPT ![c].audio = IF @ \in {"loading", "playing"} THEN "paused" ELSE @]

\* speechSynthesis.cancel(): every queued utterance leaves the queue; the platform
\* reports each removal later with an end or an error event
Cancel(cs) ==
  [c \in DOMAIN cs |-> IF cs[c].utt = "queued" THEN [cs[c] EXCEPT !.utt = "cancelling"]
                                                ELSE cs[c]]

stopSpeaking ==
  /\ calls' = IF hasSynthesis THEN Cancel(Pause(calls, audioRef)) ELSE Pause(calls, audioRef)
  /\ audioRef' = 0
  /\ synthQueue' = IF hasSynthesis THEN <<>> ELSE synthQueue
  /\ isSpeaking' = FALSE
  /\ UNCHANGED <<hasSynthesis, voices, ttsError>>
  /\ UNCHANGED captureVars

NextTTS ==
  \/ \E in \in SpeakInputs : speak(in) /\ UNCHANGED panelVars /\ UNCHANGED otherVars
  \/ \E c \in CallIds, outcome \in BackendOutcomes : backendResponds(c, outcome) /\ UNCHANGED panelVars /\ UNCHANGED otherVars
  \/ \E c \in CallIds : playResolves(c) /\ UNCHANGED panelVars /\ UNCHANGED otherVars
  \/ \E c \in CallIds : playRejects(c) /\ UNCHANGED panelVars /\ UNCHANGED otherVars
  \/ \E c \in CallIds : audioOnended(c) /\ UNCHANGED panelVars /\ UNCHANGED otherVars
  \/ \E c \in CallIds : audioOnerror(c) /\ UNCHANGED panelVars /\ UNCHANGED otherVars
  \/ \E c \in CallIds : utteranceOnend(c) /\ UNCHANGED panelVars /\ UNCHANGED otherVars
  \/ \E c \in CallIds : utteranceOnerror(c) /\ UNCHANGED panelVars /\ UNCHANGED otherVars
  \/ stopSpeaking /\ UNCHANGED panelVars /\ UNCHANGED otherVars

InitTTS == Init /\ hasRecognition = TRUE

SpecTTS == InitTTS /\ [][NextTTS]_vars


\* speak(text, {..., useBackend: false}): the guide's example and one with every
\* option given
DirectInputs ==
  { [text |-> "Fallback speech",
     options |-> [useBackend |-> FALSE]],
    [text |-> "Namaste",
     options |-> [languageCode |-> "te-IN", rate |-> 10, pitch |-> 12, volume |-> 5,
                  useBackend |-> FALSE]] }

\* the hook used with the backend switched off
NextDirect ==
  \/ \E in \in DirectInputs : speak(in) /\ UNCHANGED panelVars /\ UNCHANGED otherVars
  \/ \E c \in CallIds : utteranceOnend(c) /\ UNCHANGED panelVars /\ UNCHANGED otherVars
  \/ \E c \in CallIds : utteranceOnerror(c) /\ UNCHANGED panelVars /\ UNCHANGED otherVars
  \/ stopSpeaking /\ UNCHANGED panelVars /\ UNCHANGED otherVars

InitDirect == Init /\ hasRecognition = TRUE

SpecDirect == InitDirect /\ [][NextDirect]_vars

\* the platform's voiceschanged event: the voice list has been loaded and
\* getVoices() returns it from now on
VoicesChanged(vs) ==
  /\ hasSynthesis
  /\ voices = <<>> /\ vs # <<>>
  /\ voices' = vs
  /\ UNCHANGED <<hasSynthesis, synthQueue, isSpeaking, ttsError, audioRef, calls>>
  /\ UNCHANGED captureVars

\* speak() through synthesis in each language of the application
VoiceInputs ==
  { [text |-> "Hi", options |-> [languageCode |-> l, useBackend |-> FALSE]] :
      l \in PanelLanguages }

\* synthesis on platforms with every list of voices
NextVoices ==
  \/ \E vs \in VoiceLists : VoicesChanged(vs) /\ UNCHANGED panelVars /\ UNCHANGED otherVars
  \/ \E in \in VoiceInputs : speak(in) /\ UNCHANGED panelVars /\ UNCHANGED otherVars
  \/ \E c \in CallIds : utteranceOnend(c) /\ UNCHANGED panelVars /\ UNCHANGED otherVars

InitVoices == Init /\ hasRecognition = TRUE /\ hasSynthesis = TRUE

SpecVoices == InitVoices /\ [][NextVoices]_vars

\* ------------------------------------------- VoiceInteraction in VoiceEnabledChat
\* The text to speech variables above are the instance VoiceEnabledChat obtains from
\* useSpeakText().  VoiceInteraction holds an instance of its own, whose speak() is
\* called only by its local speakText, which nothing calls: that instance stays in
\* its initial state, and its isSpeaking is what the microphone button reads.
PanelIsSpeaking == FALSE

\* what the recognizer delivers to the panel: one result per event (continuous is
\* false), an interim text or a final one
PanelEvents == {Interim("hel"), Final("hello world")}

\* the recognizer failures the panel is exercised with
PanelErrorCodes == {"not-allowed", "no-speech"}

\* speakText(content) of useSpeakText, with the options it fills in
ChatSpeakInputs ==
  { [text |-> "Hi", options |-> [languageCode |-> "en-US", rate |-> 8, useBackend |-> TRUE]] }

\* React runs the effects of a commit before it renders the updates of a later event
\* handler: a click finds no transcript still waiting for the transcript effect
EffectsFlushed == transcript = ""

\* the microphone button: onClick={isListening ? handleStopListening : handleStartListening}
MicClick ==
  /\ mounted /\ isSupported
  /\ ~(isLoading \/ PanelIsSpeaking)
  /\ EffectsFlushed
  /\ IF isListening
     THEN stopListening /\ UNCHANGED delivered
     ELSE startListening(language) /\ delivered' = <<>>
  /\ UNCHANGED <<language, isLoading>>

\* the language selector, disabled={isListening || isSpeaking}
SelectLanguage(l) ==
  /\ mounted /\ isSupported
  /\ ~(isListening \/ PanelIsSpeaking)
  /\ l # language
  /\ language' = l
  /\ UNCHANGED <<captureVars, ttsVars, isLoading, delivered>>

\* the transcript effect without resetTranscript()
TranscriptEffectKeepTranscript ==
  /\ transcript # ""
  /\ Len(delivered) < MaxDeliveries
  /\ delivered' = Append(delivered, transcript)
  /\ UNCHANGED <<captureVars, ttsVars, language, isLoading>>

\* the effect on transcript: onTranscriptReceived(transcript); resetTranscript()
TranscriptEffect ==
  /\ transcript # ""
  /\ delivered' = Append(delivered, transcript)
  /\ resetTranscript
  /\ UNCHANGED <<language, isLoading>>

\* the speak button of a tutor message, disabled={isSpeaking}
ChatSpeakClick ==
  /\ ~isSpeaking
  /\ Len(calls) < MaxChatCalls
  /\ \E in \in ChatSpeakInputs : speak(in)
  /\ UNCHANGED panelVars

\* the Stop Speaking button, rendered while isSpeaking
ChatStopClick ==
  /\ isSpeaking
  /\ stopSpeaking
  /\ UNCHANGED panelVars

\* sendMessage up to its await; the form is disabled while isLoading
ChatSubmit ==
  /\ ~isLoading
  /\ isLoading' = TRUE
  /\ UNCHANGED <<captureVars, ttsVars, language, delivered>>

\* sendMessage after chatWithTutor settled; isVoice is false, so nothing is spoken
ChatSettles ==
  /\ isLoading
  /\ isLoading' = FALSE
  /\ UNCHANGED <<captureVars, ttsVars, language, delivered>>

Next ==
  \/ Mount /\ UNCHANGED panelVars /\ UNCHANGED otherVars
  \/ MicClick /\ UNCHANGED otherVars
  \/ \E l \in PanelLanguages : SelectLanguage(l) /\ UNCHANGED otherVars
  \/ onstart /\ UNCHANGED panelVars /\ UNCHANGED otherVars
  \/ onend /\ UNCHANGED panelVars /\ UNCHANGED otherVars
  \/ \E ev \in PanelEvents :
       Len(delivered) < MaxDeliveries /\ onresult(ev) /\ UNCHANGED panelVars /\ UNCHANGED otherVars
  \/ \E code \in PanelErrorCodes : onerror(code) /\ UNCHANGED panelVars /\ UNCHANGED otherVars
  \/ onnomatch /\ UNCHANGED panelVars /\ UNCHANGED otherVars
  \/ TranscriptEffect /\ UNCHANGED otherVars
  \/ ChatSpeakClick /\ UNCHANGED otherVars
  \/ ChatStopClick /\ UNCHANGED otherVars
  \/ \E c \in CallIds, outcome \in BackendOutcomes :
       backendResponds(c, outcome) /\ UNCHANGED panelVars /\ UNCHANGED otherVars
  \/ \E c \in CallIds : playResolves(c) /\ UNCHANGED panelVars /\ UNCHANGED otherVars
  \/ \E c \in CallIds : playRejects(c) /\ UNCHANGED panelVars /\ UNCHANGED otherVars
  \/ \E c \in CallIds : audioOnended(c) /\ UNCHANGED panelVars /\ UNCHANGED otherVars
  \/ \E c \in CallIds : audioOnerror(c) /\ UNCHANGED panelVars /\ UNCHANGED otherVars
  \/ \E c \in CallIds : utteranceOnend(c) /\ UNCHANGED panelVars /\ UNCHANGED otherVars
  \/ \E c \in CallIds : utteranceOnerror(c) /\ UNCHANGED panelVars /\ UNCHANGED otherVars
  \/ ChatSubmit /\ UNCHANGED otherVars
  \/ ChatSettles /\ UNCHANGED otherVars

Spec == Init /\ [][Next]_vars

\* the voice panel and its capture hook alone, with the chat's requests
NextPanel ==
  \/ Mount /\ UNCHANGED panelVars /\ UNCHANGED otherVars
  \/ MicClick /\ UNCHANGED otherVars
  \/ \E l \in PanelLanguages : SelectLanguage(l) /\ UNCHANGED otherVars
  \/ onstart /\ UNCHANGED panelVars /\ UNCHANGED otherVars
  \/ onend /\ UNCHANGED panelVars /\ UNCHANGED otherVars
  \/ \E ev \in PanelEvents :
       Len(delivered) < MaxDeliveries /\ onresult(ev) /\ UNCHANGED panelVars /\ UNCHANGED otherVars
  \/ \E code \in PanelErrorCodes : onerror(code) /\ UNCHANGED panelVars /\ UNCHANGED otherVars
  \/ onnomatch /\ UNCHANGED panelVars /\ UNCHANGED otherVars
  \/ TranscriptEffect /\ UNCHANGED otherVars
  \/ ChatSubmit /\ UNCHANGED otherVars
  \/ ChatSettles /\ UNCHANGED otherVars

InitPanel == Init /\ hasSynthesis = TRUE

SpecPanel == InitPanel /\ [][NextPanel]_vars

\* ------------------------------------------- useTextToSpeech (legacy hook)
\* The hook App and VocabularyPanel use for their Listen/Stop buttons.  Its
\* state is legacyIsSpeaking (isSpeaking) and legacyAudioRef (audioRef); both
\* callers pass no language, so every call speaks 'en-US'.
LegacyLanguage == "en-US"

LegacyOutcomes == {"audio", "no-audio", "throws"}

NewLegacyCall(text) ==
  [text |-> text, lang |-> LegacyLanguage, pc |-> "fetch", audio |-> "none",
   url |-> "none", utt |-> "none", handlers |-> "none"]

LegacyCallIds == 1..Len(legacyCalls)

LegacySpoken == IF legacyQueue = <<>> THEN {} ELSE {Head(legacyQueue)}
LegacyPlaying == {c \in LegacyCallIds : legacyCalls[c].audio = "playing"}

\* speak() up to its first await: setIsSpeaking(true), then the backend request
legacySpeak(text) ==
  /\ Len(legacyCalls) < MaxLegacyCalls
  /\ legacyCalls' = Append(legacyCalls, NewLegacyCall(text))
  /\ legacyIsSpeaking' = TRUE
  /\ UNCHANGED <<legacyAudioRef, legacyQueue>>

\* the catch block of speak() for call c: setIsSpeaking(false), then an utterance
\* with an onend handler only
legacyCatch(c, cs) ==
  /\ legacyIsSpeaking' = FALSE
  /\ IF hasSynthesis
     THEN /\ legacyCalls' = [cs EXCEPT ![c].utt = "queued", ![c].handlers = "onend",
                                       ![c].pc = "done"]
          /\ legacyQueue' = Append(legacyQueue, c)
     ELSE /\ legacyCalls' = [cs EXCEPT ![c].pc = "done"]
          /\ UNCHANGED legacyQueue

\* apiService.textToSpeech settles for call c
legacyResponds(c, outcome) ==
  /\ c \in LegacyCallIds
  /\ legacyCalls[c].pc = "fetch"
  /\ CASE outcome = "audio" ->
            /\ legacyCalls' = [legacyCalls EXCEPT ![c].audio = "loading",
                                                  ![c].url = "live",
                                                  ![c].pc = "play"]
            /\ legacyAudioRef' = c
            /\ UNCHANGED <<legacyIsSpeaking, legacyQueue>>
       [] outcome = "no-audio" ->
            /\ IF hasSynthesis
               THEN /\ legacyCalls' = [legacyCalls EXCEPT ![c].utt = "queued",
                                                          ![c].handlers = "both",
                                                          ![c].pc = "done"]
                    /\ legacyQueue' = Append(legacyQueue, c)
                    /\ UNCHANGED legacyIsSpeaking
               ELSE /\ legacyCalls' = [legacyCalls EXCEPT ![c].pc = "done"]
                    /\ legacyIsSpeaking' = FALSE
                    /\ UNCHANGED legacyQueue
            /\ UNCHANGED legacyAudioRef
       [] outcome = "throws" ->
            /\ legacyCatch(c, legacyCalls)
            /\ UNCHANGED legacyAudioRef

legacyPlayResolves(c) ==
  /\ c \in LegacyCallIds
  /\ legacyCalls[c].pc = "play"
  /\ legacyCalls[c].audio = "loading"
  /\ legacyCalls' = [legacyCalls EXCEPT ![c].audio = "playing", ![c].pc = "done"]
  /\ UNCHANGED <<legacyIsSpeaking, legacyAudioRef, legacyQueue>>

\* audio.play() rejects (the media failed, autoplay was refused, or pause()
\* interrupted the load): the await throws into the catch block
legacyPlayRejects(c) ==
  /\ c \in LegacyCallIds
  /\ legacyCalls[c].pc = "play"
  /\ legacyCalls[c].audio \in {"loading", "paused", "failed"}
  /\ legacyCatch(c, [legacyCalls EXCEPT ![c].audio = IF @ = "loading" THEN "failed" ELSE @])
  /\ UNCHANGED legacyAudioRef

legacyAudioOnended(c) ==
  /\ c \in LegacyCallIds
  /\ legacyCalls[c].audio = "playing"
  /\ legacyCalls' = [legacyCalls EXCEPT ![c].audio = "ended", ![c].url = "revoked"]
  /\ legacyIsSpeaking' = FALSE
  /\ UNCHANGED <<legacyAudioRef, legacyQueue>>

legacyAudioOnerror(c) ==
  /\ c \in LegacyCallIds
  /\ legacyCalls[c].audio \in {"loading", "playing"}
  /\ legacyCalls' = [legacyCalls EXCEPT ![c].audio = "failed", ![c].url = "revoked"]
  /\ legacyIsSpeaking' = FALSE
  /\ UNCHANGED <<legacyAudioRef, legacyQueue>>

\* the end event of call c's utterance: the one being spoken finishes, or a
\* cancelled one is reported
legacyUtteranceOnend(c) ==
  /\ c \in LegacyCallIds
  /\ \/ legacyCalls[c].utt = "queued" /\ c \in LegacySpoken /\ legacyQueue' = Tail(legacyQueue)
     \/ legacyCalls[c].utt = "cancelling" /\ UNCHANGED legacyQueue
  /\ legacyCalls' = [legacyCalls EXCEPT ![c].utt = "ended"]
  /\ legacyIsSpeaking' = FALSE
  /\ UNCHANGED legacyAudioRef

\* the error event of call c's utterance; the utterance of the catch block has
\* no onerror handler
legacyUtteranceOnerror(c) ==
  /\ c \in LegacyCallIds
  /\ \/ legacyCalls[c].utt = "queued" /\ c \in LegacySpoken /\ legacyQueue' = Tail(legacyQueue)
     \/ legacyCalls[c].utt = "cancelling" /\ UNCHANGED legacyQueue
  /\ legacyCalls' = [legacyCalls EXCEPT ![c].utt = "failed"]
  /\ legacyIsSpeaking' = IF legacyCalls[c].handlers = "both" THEN FALSE ELSE legacyIsSpeaking
  /\ UNCHANGED legacyAudioRef

legacyStopSpeaking ==
  /\ legacyCalls' = IF hasSynthesis THEN Cancel(Pause(legacyCalls, legacyAudioRef))
                                    ELSE Pause(legacyCalls, legacyAudioRef)
  /\ legacyAudioRef' = 0
  /\ legacyQueue' = IF hasSynthesis THEN <<>> ELSE legacyQueue
  /\ legacyIsSpeaking' = FALSE

\* handleSpeakMessage of App and handleSpeak of VocabularyPanel
handleSpeak(text) ==
  IF legacyIsSpeaking THEN legacyStopSpeaking ELSE legacySpeak(text)

LegacyTexts == {"Hi"}

NextLegacy ==
  \/ \E text \in LegacyTexts : handleSpeak(text) /\ UNCHANGED <<voiceVars, recorderVars, appVars, lessonVars>>
  \/ \E c \in LegacyCallIds, o \in LegacyOutcomes :
       legacyResponds(c, o) /\ UNCHANGED <<voiceVars, recorderVars, appVars, lessonVars>>
  \/ \E c \in LegacyCallIds : legacyPlayResolves(c) /\ UNCHANGED <<voiceVars, recorderVars, appVars, lessonVars>>
  \/ \E c \in LegacyCallIds : legacyPlayRejects(c) /\ UNCHANGED <<voiceVars, recorderVars, appVars, lessonVars>>
  \/ \E c \in LegacyCallIds : legacyAudioOnended(c) /\ UNCHANGED <<voiceVars, recorderVars, appVars, lessonVars>>
  \/ \E c \in LegacyCallIds : legacyAudioOnerror(c) /\ UNCHANGED <<voiceVars, recorderVars, appVars, lessonVars>>
  \/ \E c \in LegacyCallIds : legacyUtteranceOnend(c) /\ UNCHANGED <<voiceVars, recorderVars, appVars, lessonVars>>
  \/ \E c \in LegacyCallIds : legacyUtteranceOnerror(c) /\ UNCHANGED <<voiceVars, recorderVars, appVars, lessonVars>>

InitLegacy == Init /\ hasRecognition = TRUE

SpecLegacy == InitLegacy /\ [][NextLegacy]_vars

\* ------------------------------------ useSpeechRecognition (recorder hook)
\* A recording is one startRecording() call: the getUserMedia request, the
\* stream it acquires and the MediaRecorder built on it.  The audio data itself
\* (audioChunksRef) is not part of the state.
NewRecording ==
  [media |-> "requesting", state |-> "none", tracks |-> "none", stopEvent |-> FALSE,
   onstop |-> FALSE, promise |-> "none", stt |-> "none"]

RecordingIds == 1..Len(recordings)

SpokenTexts == {"", "Hi"}

\* stream.getTracks().forEach(track => track.stop()) on recording r; a recorder
\* whose tracks have all ended becomes inactive and gets its stop event
StopTracks(rs, r) ==
  [rs EXCEPT ![r].tracks = "stopped",
             ![r].state = IF @ = "recording" THEN "inactive" ELSE @,
             ![r].stopEvent = IF rs[r].state = "recording" THEN TRUE ELSE @]

\* startRecording() up to its await
startRecording ==
  /\ Len(recordings) < MaxRecordings
  /\ recordings' = Append(recordings, NewRecording)
  /\ UNCHANGED <<isRecording, isProcessing, mediaRecorderRef>>

\* getUserMedia resolves for recording r: the rest of startRecording()
mediaGranted(r) ==
  /\ r \in RecordingIds
  /\ recordings[r].media = "requesting"
  /\ recordings' = [recordings EXCEPT ![r].media = "granted", ![r].state = "recording",
                                      ![r].tracks = "live"]
  /\ mediaRecorderRef' = r
  /\ isRecording' = TRUE
  /\ UNCHANGED isProcessing

\* getUserMedia rejects: startRecording() throws 'Could not access microphone'
mediaDenied(r) ==
  /\ r \in RecordingIds
  /\ recordings[r].media = "requesting"
  /\ recordings' = [recordings EXCEPT ![r].media = "denied"]
  /\ UNCHANGED <<isRecording, isProcessing, mediaRecorderRef>>

\* stopRecording() rejects at once with 'No active recording found'
NoActiveRecording ==
  mediaRecorderRef = 0 \/ recordings[mediaRecorderRef].state = "inactive"

stopRecording ==
  /\ IF NoActiveRecording
     THEN UNCHANGED recordings
     ELSE recordings' = [recordings EXCEPT ![mediaRecorderRef].onstop = TRUE,
                                           ![mediaRecorderRef].promise = "pending",
                                           ![mediaRecorderRef].state = "inactive",
                                           ![mediaRecorderRef].stopEvent = TRUE]
  /\ UNCHANGED <<isRecording, isProcessing, mediaRecorderRef>>

\* the stop event of recorder r: the onstop handler up to its await, when
\* stopRecording() has installed one
recorderOnstop(r) ==
  /\ r \in RecordingIds
  /\ recordings[r].stopEvent
  /\ IF recordings[r].onstop /\ recordings[r].stt = "none"
     THEN /\ recordings' = [recordings EXCEPT ![r].stopEvent = FALSE, ![r].stt = "pending"]
          /\ isRecording' = FALSE
          /\ isProcessing' = TRUE
     ELSE /\ recordings' = [recordings EXCEPT ![r].stopEvent = FALSE]
          /\ UNCHANGED <<isRecording, isProcessing>>
  /\ UNCHANGED mediaRecorderRef

\* apiService.speechToText resolves for recording r: the tracks stopped are those
\* of the recorder mediaRecorderRef holds now
speechToTextResolves(r) ==
  /\ r \in RecordingIds
  /\ recordings[r].stt = "pending"
  /\ isProcessing' = FALSE
  /\ recordings' = [StopTracks(recordings, mediaRecorderRef) EXCEPT ![r].stt = "done",
                                                                    ![r].promise = "resolved"]
  /\ UNCHANGED <<isRecording, mediaRecorderRef>>

\* apiService.speechToText rejects for recording r: the catch block of onstop
speechToTextRejects(r) ==
  /\ r \in RecordingIds
  /\ recordings[r].stt = "pending"
  /\ isProcessing' = FALSE
  /\ recordings' = [recordings EXCEPT ![r].stt = "done", ![r].promise = "rejected"]
  /\ UNCHANGED <<isRecording, mediaRecorderRef>>

cancelRecording ==
  /\ recordings' = IF mediaRecorderRef # 0 /\ recordings[mediaRecorderRef].state # "inactive"
                   THEN StopTracks(recordings, mediaRecorderRef)
                   ELSE recordings
  /\ isRecording' = FALSE
  /\ isProcessing' = FALSE
  /\ UNCHANGED mediaRecorderRef

NextRecorder ==
  \/ startRecording /\ UNCHANGED <<voiceVars, legacyVars, appVars, lessonVars>>
  \/ \E r \in RecordingIds : mediaGranted(r) /\ UNCHANGED <<voiceVars, legacyVars, appVars, lessonVars>>
  \/ \E r \in RecordingIds : mediaDenied(r) /\ UNCHANGED <<voiceVars, legacyVars, appVars, lessonVars>>
  \/ stopRecording /\ UNCHANGED <<voiceVars, legacyVars, appVars, lessonVars>>
  \/ \E r \in RecordingIds : recorderOnstop(r) /\ UNCHANGED <<voiceVars, legacyVars, appVars, lessonVars>>
  \/ \E r \in RecordingIds : speechToTextResolves(r) /\ UNCHANGED <<voiceVars, legacyVars, appVars, lessonVars>>
  \/ \E r \in RecordingIds : speechToTextRejects(r) /\ UNCHANGED <<voiceVars, legacyVars, appVars, lessonVars>>
  \/ cancelRecording /\ UNCHANGED <<voiceVars, legacyVars, appVars, lessonVars>>

InitRecorder == Init /\ hasRecognition = TRUE /\ hasSynthesis = TRUE

SpecRecorder == InitRecorder /\ [][NextRecorder]_vars

\* --------------------------------------------------------------- App chat
\* String.prototype.trim for the blank the inputs contain
RECURSIVE TrimStart(_)
TrimStart(str) ==
  IF str # "" /\ SubSeq(str, 1, 1) = " " THEN TrimStart(SubSeq(str, 2, Len(str))) ELSE str

RECURSIVE TrimEnd(_)
TrimEnd(str) ==
  IF str # "" /\ SubSeq(str, Len(str), Len(str)) = " "
  THEN TrimEnd(SubSeq(str, 1, Len(str) - 1))
  ELSE str

Trim(str) == TrimEnd(TrimStart(str))

TypedTexts == {"", " ", "Hi"}
TranscribedTexts == SpokenTexts \cup {" "}
Encouragement == "Well done"

RequestIds == 1..Len(requests)
InFlight == {q \in RequestIds : requests[q].state = "pending"}

\* handleSendMessage(message, isVoice) of a render whose isLoading was seenLoading,
\* up to its await
handleSendMessage(message, isVoice, seenLoading) ==
  IF Trim(message) = "" \/ seenLoading
  THEN UNCHANGED <<messages, inputMessage, appIsLoading, requests>>
  ELSE /\ Len(requests) < MaxMessages
       /\ messages' = Append(messages, [type |-> "user", kind |-> "user",
                                        req |-> Len(requests) + 1])
       /\ inputMessage' = ""
       /\ appIsLoading' = TRUE
       /\ requests' = Append(requests, [message |-> message, isVoice |-> isVoice,
                                        state |-> "pending", timer |-> "none"])

InputDisabled == appIsLoading \/ isRecording \/ isProcessing

\* onChange of the text input
InputChange(text) ==
  /\ ~InputDisabled
  /\ inputMessage # text
  /\ inputMessage' = text
  /\ UNCHANGED <<messages, appIsLoading, requests, voiceClosures>>

\* Enter in the text input
EnterKey ==
  /\ ~InputDisabled
  /\ handleSendMessage(inputMessage, FALSE, appIsLoading)
  /\ UNCHANGED voiceClosures

\* the send button
SendClick ==
  /\ ~(Trim(inputMessage) = "" \/ InputDisabled)
  /\ handleSendMessage(inputMessage, FALSE, appIsLoading)
  /\ UNCHANGED voiceClosures

\* the voice button: handleVoiceRecording up to its await.  The continuation of
\* the stop branch runs later with the handleSendMessage of this render.
handleVoiceRecording ==
  /\ ~appIsLoading
  /\ IF isRecording
     THEN /\ stopRecording
          /\ voiceClosures' = IF NoActiveRecording THEN voiceClosures
                              ELSE [voiceClosures EXCEPT ![mediaRecorderRef] = appIsLoading]
     ELSE /\ startRecording
          /\ UNCHANGED voiceClosures
  /\ UNCHANGED <<messages, inputMessage, appIsLoading, requests>>

\* stopRecording() resolves with text: the rest of handleVoiceRecording
Transcribed(r, text) ==
  /\ speechToTextResolves(r)
  /\ IF text # ""
     THEN handleSendMessage(text, TRUE, voiceClosures[r])
     ELSE UNCHANGED <<messages, inputMessage, appIsLoading, requests>>
  /\ UNCHANGED voiceClosures

\* apiService.sendMessage resolves for request q
sendMessageResolves(q, encouragement) ==
  /\ q \in RequestIds
  /\ requests[q].state = "pending"
  /\ messages' = Append(messages, [type |-> "tutor", kind |-> "response", req |-> q])
  /\ requests' = [requests EXCEPT ![q].state = "ok",
                                  ![q].timer = IF requests[q].isVoice /\ encouragement # ""
                                               THEN "armed" ELSE "none"]
  /\ appIsLoading' = FALSE
  /\ UNCHANGED <<inputMessage, voiceClosures>>

\* apiService.sendMessage rejects for request q
sendMessageRejects(q) ==
  /\ q \in RequestIds
  /\ requests[q].state = "pending"
  /\ messages' = Append(messages, [type |-> "tutor", kind |-> "error", req |-> q])
  /\ requests' = [requests EXCEPT ![q].state = "failed"]
  /\ appIsLoading' = FALSE
  /\ UNCHANGED <<inputMessage, voiceClosures>>

\* the 500 ms timer of a voice response: speak(response.encouragement)
speakTimer(q) ==
  /\ q \in RequestIds
  /\ requests[q].timer = "armed"
  /\ requests' = [requests EXCEPT ![q].timer = "fired"]
  /\ legacySpeak(Encouragement)
  /\ UNCHANGED <<messages, inputMessage, appIsLoading, voiceClosures>>

NextApp ==
  \/ \E text \in TypedTexts : InputChange(text) /\ UNCHANGED <<voiceVars, legacyVars, recorderVars, lessonVars>>
  \/ EnterKey /\ UNCHANGED <<voiceVars, legacyVars, recorderVars, lessonVars>>
  \/ SendClick /\ UNCHANGED <<voiceVars, legacyVars, recorderVars, lessonVars>>
  \/ handleVoiceRecording /\ UNCHANGED <<voiceVars, legacyVars, lessonVars>>
  \/ \E r \in RecordingIds : mediaGranted(r) /\ UNCHANGED <<voiceVars, legacyVars, appVars, lessonVars>>
  \/ \E r \in RecordingIds : mediaDenied(r) /\ UNCHANGED <<voiceVars, legacyVars, appVars, lessonVars>>
  \/ \E r \in RecordingIds : recorderOnstop(r) /\ UNCHANGED <<voiceVars, legacyVars, appVars, lessonVars>>
  \/ \E r \in RecordingIds, text \in TranscribedTexts :
       Transcribed(r, text) /\ UNCHANGED <<voiceVars, legacyVars, lessonVars>>
  \/ \E r \in RecordingIds : speechToTextRejects(r) /\ UNCHANGED <<voiceVars, legacyVars, appVars, lessonVars>>
  \/ \E q \in RequestIds, e \in {"", Encouragement} :
       sendMessageResolves(q, e) /\ UNCHANGED <<voiceVars, legacyVars, recorderVars, lessonVars>>
  \/ \E q \in RequestIds : sendMessageRejects(q) /\ UNCHANGED <<voiceVars, legacyVars, recorderVars, lessonVars>>
  \/ \E q \in RequestIds : speakTimer(q) /\ UNCHANGED <<voiceVars, recorderVars, lessonVars>>

InitApp == Init /\ hasRecognition = TRUE /\ hasSynthesis = TRUE

SpecApp == InitApp /\ [][NextApp]_vars

\* ------------------------------------------------------------ LessonPanel
\* the exercises a load fetched: n of them, with exercise ids 1..n
ExercisesOf(l, n) == [i \in 1..n |-> [load |-> l, exercise_id |-> i]]

LoadIds == 1..Len(lessonLoads)

\* the exercise view is what the panel renders
ExerciseViewShown == ~loading /\ currentLesson # 0 /\ Len(exercises) > 0

\* the lesson list is what the panel renders
LessonListShown == ~loading /\ ~(currentLesson # 0 /\ Len(exercises) > 0)

\* startLesson() up to its first await, from a lesson card
startLesson ==
  /\ LessonListShown
  /\ Len(lessonLoads) < MaxLoads
  /\ loading' = TRUE
  /\ lessonLoads' = Append(lessonLoads, "lesson")
  /\ UNCHANGED <<currentLesson, exercises, currentExercise, userAnswers, showResults>>

\* apiService.getPersonalizedLesson resolves for load l: onLessonChange(lesson),
\* then the exercise request
lessonResolves(l) ==
  /\ l \in LoadIds
  /\ lessonLoads[l] = "lesson"
  /\ currentLesson' = l
  /\ lessonLoads' = [lessonLoads EXCEPT ![l] = "exercise"]
  /\ UNCHANGED <<exercises, currentExercise, userAnswers, loading, showResults>>

\* apiService.getPersonalizedLesson rejects: catch and finally
lessonRejects(l) ==
  /\ l \in LoadIds
  /\ lessonLoads[l] = "lesson"
  /\ loading' = FALSE
  /\ lessonLoads' = [lessonLoads EXCEPT ![l] = "failed"]
  /\ UNCHANGED <<currentLesson, exercises, currentExercise, userAnswers, showResults>>

\* apiService.generateExercise resolves for load l with n exercises
exerciseResolves(l, n) ==
  /\ l \in LoadIds
  /\ lessonLoads[l] = "exercise"
  /\ exercises' = ExercisesOf(l, n)
  /\ currentExercise' = 0
  /\ userAnswers' = {}
  /\ showResults' = FALSE
  /\ loading' = FALSE
  /\ lessonLoads' = [lessonLoads EXCEPT ![l] = "done"]
  /\ UNCHANGED currentLesson

\* apiService.generateExercise rejects: catch and finally
exerciseRejects(l) ==
  /\ l \in LoadIds
  /\ lessonLoads[l] = "exercise"
  /\ loading' = FALSE
  /\ lessonLoads' = [lessonLoads EXCEPT ![l] = "failed"]
  /\ UNCHANGED <<currentLesson, exercises, currentExercise, userAnswers, showResults>>

\* an answer for the exercise on screen
handleAnswerChange ==
  /\ ExerciseViewShown
  /\ exercises[currentExercise + 1].exercise_id \notin userAnswers
  /\ userAnswers' = userAnswers \cup {exercises[currentExercise + 1].exercise_id}
  /\ UNCHANGED <<currentLesson, exercises, currentExercise, loading, showResults, lessonLoads>>

\* the Submit Answer button, enabled once the exercise on screen has an answer
submitExercise ==
  /\ ExerciseViewShown
  /\ ~showResults
  /\ exercises[currentExercise + 1].exercise_id \in userAnswers
  /\ showResults' = TRUE
  /\ UNCHANGED <<currentLesson, exercises, currentExercise, userAnswers, loading, lessonLoads>>

\* nextExercise() without its test
nextExerciseAlways ==
  /\ ExerciseViewShown
  /\ currentExercise' = currentExercise + 1
  /\ showResults' = FALSE
  /\ UNCHANGED <<currentLesson, exercises, userAnswers, loading, lessonLoads>>

\* nextExercise(), called from the exercise view
nextExercise ==
  /\ ExerciseViewShown
  /\ IF currentExercise < Len(exercises) - 1
     THEN /\ currentExercise' = currentExercise + 1
          /\ showResults' = FALSE
     ELSE UNCHANGED <<currentExercise, showResults>>
  /\ UNCHANGED <<currentLesson, exercises, userAnswers, loading, lessonLoads>>

\* Back to Lessons and Complete Lesson: onLessonChange(null)
backToLessons ==
  /\ ExerciseViewShown
  /\ currentLesson' = 0
  /\ UNCHANGED <<exercises, currentExercise, userAnswers, loading, showResults, lessonLoads>>

NextLesson ==
  \/ startLesson /\ UNCHANGED <<voiceVars, legacyVars, recorderVars, appVars>>
  \/ \E l \in LoadIds : lessonResolves(l) /\ UNCHANGED <<voiceVars, legacyVars, recorderVars, appVars>>
  \/ \E l \in LoadIds : lessonRejects(l) /\ UNCHANGED <<voiceVars, legacyVars, recorderVars, appVars>>
  \/ \E l \in LoadIds, n \in 0..MaxExercises :
       exerciseResolves(l, n) /\ UNCHANGED <<voiceVars, legacyVars, recorderVars, appVars>>
  \/ \E l \in LoadIds : exerciseRejects(l) /\ UNCHANGED <<voiceVars, legacyVars, recorderVars, appVars>>
  \/ handleAnswerChange /\ UNCHANGED <<voiceVars, legacyVars, recorderVars, appVars>>
  \/ submitExercise /\ UNCHANGED <<voiceVars, legacyVars, recorderVars, appVars>>
  \/ nextExercise /\ UNCHANGED <<voiceVars, legacyVars, recorderVars, appVars>>
  \/ backToLessons /\ UNCHANGED <<voiceVars, legacyVars, recorderVars, appVars>>

InitLesson == Init /\ hasRecognition = TRUE /\ hasSynthesis = TRUE

SpecLesson == InitLesson /\ [][NextLesson]_vars

\* ------------------------------------------------------------------ claims

\* C1: at most one backend audio or synthesis utterance is active at any instant.
C1_AtMostOneActive ==
  Cardinality(PlayingAudios) + Cardinality(SpokenUtterances) <= 1

\* C2: a render response that arrives for a call after a newer call has started
\* creates no audio and leaves audioRef alone.
C2_StaleResponseDiscarded ==
  [][\A c \in CallIds :
       (backendResponds(c, "audio") /\ c < Len(calls)) =>
         /\ calls'[c].audio = "none"
         /\ audioRef' = audioRef]_vars

\* C3: within a capture session the final transcript is the concatenation of the
\* final segments in arrival order; a step either starts a new session with an
\* empty transcript or appends the newly arrived final segments to it, so a step
\* that brings no final segment (an interim update) leaves it as it is.
C3_FinalTranscriptIsConcatenation ==
  /\ [](transcript = ConcatAll(finals) /\ finalTranscriptRef = transcript)
  /\ [][ \/ finals' = <<>> /\ transcript' = ""
         \/ /\ Len(finals') >= Len(finals)
            /\ SubSeq(finals', 1, Len(finals)) = finals
            /\ transcript' =
                 transcript \o ConcatAll(SubSeq(finals', Len(finals) + 1, Len(finals'))) ]_vars

\* two different final segments have arrived and an interim update came with or after them
C3_Witness ==
  /\ Len(finals) = 2 /\ finals[1] # finals[2]
  /\ transcript = finals[1] \o finals[2]
  /\ lastInterims # <<>>

\* C4: after every result event interimTranscript is the concatenation of that
\* event's non-final segments and nothing else; after the interim updates "hel"
\* and "hello wor" and the final segment "hello world" it is empty and the final
\* transcript is "hello world".
C4_InterimIsReplaced ==
  /\ interimTranscript = ConcatAll(lastInterims)
  /\ scen = 3 => interimTranscript = "" /\ transcript = "hello world"

C4_Witness == scen = 3 /\ isListening

\* the calls whose backend path failed before an audio existed
BackendFailed(c) ==
  calls[c].opts.useBackend /\ calls[c].pc = "done" /\ calls[c].audio = "none"

\* the fallback of call c in a step: an utterance with the call's text and language
\* joins the synthesis queue and the error is left alone
FallsBack(c) ==
  hasSynthesis =>
    /\ calls'[c].utt = "queued"
    /\ calls'[c].utterance.text = calls[c].text
    /\ calls'[c].utterance.lang = calls[c].opts.languageCode
    /\ synthQueue' = Append(synthQueue, c)
    /\ ttsError' = ttsError

\* C5: when the backend path of a call fails (network error, non-success status,
\* no audio_content, or play() refusing), local synthesis is attempted with the
\* call's text and language; the end of an utterance sets no error, and a single
\* call whose fallback utterance has ended leaves the error unset.
C5_BackendFailureFallsBack ==
  /\ [][\A c \in CallIds :
          /\ \A outcome \in BackendFailures : backendResponds(c, outcome) => FallsBack(c)
          /\ playRejects(c) => FallsBack(c)
          /\ utteranceOnend(c) => ttsError' = ttsError]_vars
  /\ []((Len(calls) = 1 /\ BackendFailed(1) /\ calls[1].utt = "ended") => ttsError = NULL)

C5_Witness ==
  \E c \in CallIds :
    /\ BackendFailed(c) /\ calls[c].utt = "ended"
    /\ calls[c].utterance.lang = "te-IN" /\ calls[c].utterance.text = "Namaste"
    /\ ttsError = NULL

\* C6: every audio whose playback has ended, failed or been stopped has had its
\* object URL revoked.
C6_UrlsReleased ==
  \A c \in CallIds :
    calls[c].audio \in {"ended", "error", "paused"} => calls[c].url = "revoked"

\* C7: speak() sets speaking unless it fails at once; the fallback after a backend
\* failure leaves speaking as it is; the end or the failure of an audio or utterance
\* leaves speaking false, and speaking turns true again only in speak(); the
\* utterance of a call whose backend failed has the call's language and rate.
C7_CompletionClearsSpeaking ==
  /\ [][ /\ \A in \in SpeakInputs :
               (speak(in) /\ (WithDefaults(in.options).useBackend \/ hasSynthesis))
                 => isSpeaking'
         /\ \A c \in CallIds :
               /\ \A outcome \in BackendFailures :
                    (backendResponds(c, outcome) /\ hasSynthesis) => isSpeaking' = isSpeaking
               /\ (audioOnended(c) \/ audioOnerror(c) \/ utteranceOnend(c)
                     \/ utteranceOnerror(c)) => ~isSpeaking'
         /\ (isSpeaking' /\ ~isSpeaking) => \E in \in SpeakInputs : speak(in) ]_vars
  /\ [](\A c \in CallIds :
          (BackendFailed(c) /\ hasSynthesis) =>
             /\ calls[c].utterance.lang = calls[c].opts.languageCode
             /\ calls[c].utterance.rate = calls[c].opts.rate)

\* speak("Hi", en-US, rate 0.8) fell back to synthesis, which has ended
C7_Witness ==
  /\ Len(calls) = 1 /\ BackendFailed(1)
  /\ calls[1].text = "Hi"
  /\ calls[1].utterance.lang = "en-US" /\ calls[1].utterance.rate = 8
  /\ calls[1].utt = "ended"
  /\ ~isSpeaking

\* C8: after stopSpeaking() no backend audio is playing, no utterance is queued or
\* spoken, and speaking is false.
C8_StopSpeakingStopsAll ==
  [][stopSpeaking =>
       /\ PlayingAudios' = {}
       /\ SpokenUtterances' = {}
       /\ isSpeaking' = FALSE]_vars


\* C9: no capture session is listening while a backend audio or an utterance
\* started by the application is sounding.
C9_NoCaptureWhilePlaying ==
  ~(isListening /\ (PlayingAudios # {} \/ SpokenUtterances # {}))

\* the ErrorKind of an error message of the capture hook
KindOfMessage(msg) ==
  CASE msg = "No speech detected. Please try again." -> "no-speech"
    [] msg = "Microphone access denied or not available." -> "audio-capture-denied"
    [] msg = "Microphone permission denied. Please allow microphone access." ->
         "permission-denied"
    [] msg = "Network error. Please check your internet connection." -> "network"
    [] msg \in {"Speech recognition error: " \o code : code \in ErrorCodes} -> "other"
    [] OTHER -> "none"

\* the fixed table from platform error codes to ErrorKind
KindOfCode(code) ==
  CASE code = "no-speech" -> "no-speech"
    [] code = "audio-capture" -> "audio-capture-denied"
    [] code = "not-allowed" -> "permission-denied"
    [] code = "network" -> "network"
    [] OTHER -> "other"

C11_EndClearsListening ==
  /\ [][onend => isListening' = FALSE]_vars
  /\ [](recState = "idle" => ~isListening)

\* a session that delivered a final segment has ended
C11_Witness ==
  /\ mounted /\ recState = "idle" /\ ~isListening
  /\ finals # <<>>

\* C12: startListening() while listening changes nothing: not the transcripts, the
\* error, the recognizer language or the recognizer's state.
C12_StartWhileListeningIsNoOp ==
  [][\A lang \in Languages :
       (isListening /\ startListening(lang)) => UNCHANGED vars]_vars

\* listening in te-IN with a final segment received and an error shown: the state
\* startListening("en-US") leaves as it is
C12_Witness ==
  /\ isListening /\ recState = "listening"
  /\ recLang = "te-IN" /\ transcript # "" /\ speechError = MsgNoMatch

\* C13: startListening(languageCode) with recognition supported and listening false
\* empties both transcripts, sets the recognizer language, and starts the recognizer,
\* whose start event makes listening true.
C13_StartBeginsCapture ==
  [][ /\ \A lang \in Languages :
           (isSupported /\ ~isListening /\ startListening(lang)) =>
              /\ transcript' = "" /\ interimTranscript' = ""
              /\ recLang' = lang
              /\ recState' = "starting"
      /\ onstart => isListening' ]_vars

\* the messages of the unsupported kind
UnsupportedMessages == {MsgUnsupportedBrowser, MsgUnsupported}

\* C14: without the recognition capability startListening() sets the error to the
\* unsupported kind and changes nothing else: the recognizer is not started,
\* listening stays false and the transcripts stay as they are; no recognizer is ever
\* started and listening is never true on such a platform.
C14_UnsupportedFailsSilently ==
  /\ [][\A lang \in Languages :
          (~hasRecognition /\ startListening(lang)) =>
             /\ speechError' \in UnsupportedMessages
             /\ UNCHANGED <<recState, recLang, isListening, isSupported, transcript,
                            interimTranscript, finalTranscriptRef>>]_vars
  /\ [](~hasRecognition => recState = "idle" /\ ~isListening)

\* startListening() has reported the missing capability
C14_Witness ==
  /\ ~hasRecognition /\ mounted
  /\ speechError = MsgUnsupported
  /\ recState = "idle" /\ ~isListening /\ transcript = ""

\* C15: on a platform without speech recognition, once the hook has initialised,
\* supported is false and stays false, the panel offers neither the microphone
\* button nor the language selector, the recognizer is never started and listening
\* is never true.
C15_UnsupportedIsTerminal ==
  /\ []((mounted /\ ~hasRecognition) =>
          (~isSupported /\ recState = "idle" /\ ~isListening /\ delivered = <<>>))
  /\ [][(mounted /\ ~isSupported) =>
          /\ ~isSupported'
          /\ ~MicClick
          /\ \A l \in PanelLanguages : ~SelectLanguage(l)]_vars

\* the unsupported panel after a chat request has been sent
C15_Witness ==
  /\ mounted /\ ~hasRecognition /\ ~isSupported
  /\ speechError = MsgUnsupportedBrowser
  /\ isLoading

\* the backend audio of call c has never sounded
NoBackendSpeech(c) == calls[c].audio \in {"none", "blocked", "paused", "error"}

\* a step in which a call reaches the synthesis branch of speak()
ReachesSynthesis ==
  \/ \E in \in SpeakInputs : speak(in) /\ ~WithDefaults(in.options).useBackend
  \/ \E c \in CallIds :
       \/ \E outcome \in BackendFailures : backendResponds(c, outcome)
       \/ playRejects(c)

C17_ResetClearsTranscriptsAndError ==
  [][resetTranscript =>
       /\ transcript' = "" /\ interimTranscript' = "" /\ finalTranscriptRef' = ""
       /\ speechError' = NULL
       /\ UNCHANGED <<isListening, recState, recLang, isSupported>>]_vars

\* a session that failed and has not ended yet, with its error cleared: only
\* resetTranscript() clears the error of a failed session
C17_Witness ==
  /\ recState = "failed" /\ speechError = NULL
  /\ transcript = "" /\ interimTranscript = ""

\* C18: stopListening() while listening asks the recognizer to stop and changes no
\* state of the hook; while not listening it sends no request and changes nothing.
C18_StopOnlyWhenListening ==
  [][stopListening =>
       IF isListening
       THEN /\ recState' = "stopping"
            /\ UNCHANGED <<isListening, transcript, interimTranscript, speechError,
                           finalTranscriptRef, recLang>>
       ELSE UNCHANGED vars]_vars

\* the recognizer has been asked to stop and has not ended yet
C18_Witness ==
  /\ recState = "stopping" /\ isListening

\* C19: the transcript effect hands the consumer exactly the final segments received
\* since the previous delivery, in order, and clears them; final segments waiting for
\* delivery are dropped by no other step, so each final segment of a session is
\* delivered once and none is lost.
C19_FinalsDeliveredOnce ==
  /\ [](transcript = ConcatAll(finals))
  /\ [][TranscriptEffect =>
          /\ delivered' = Append(delivered, ConcatAll(finals))
          /\ finals' = <<>> /\ transcript' = ""]_vars
  /\ [][(finals # <<>> /\ (Len(finals') < Len(finals)
                            \/ SubSeq(finals', 1, Len(finals)) # finals))
          => TranscriptEffect]_vars

\* two final segments of one session, each delivered as it arrived
C19_Witness ==
  /\ delivered = <<"hello world", "hello world">>
  /\ finals = <<>> /\ transcript = ""

\* C20: a recognition error is shown (the error is set and listening is false), and
\* the recognizer is started again only by a press of the microphone button.
C20_ErrorsNotRetried ==
  /\ [][\A code \in PanelErrorCodes :
          onerror(code) => (speechError' = ErrorMessage(code) /\ ~isListening')]_vars
  /\ [][(recState' = "starting" /\ recState # "starting") => MicClick]_vars

\* a failed session has ended, its error is still shown and nothing listens
C20_Witness ==
  /\ recState = "idle" /\ ~isListening
  /\ speechError = ErrorMessage("not-allowed")

\* C21: speak() with useBackend false sends no render request and creates no audio;
\* where synthesis exists it queues at once an utterance with the call's text and
\* the requested (or default) language, rate, pitch and volume.
C21_DirectSynthesis ==
  /\ [][\A in \in DirectInputs :
          speak(in) =>
            LET c == Len(calls) + 1
                o == WithDefaults(in.options)
            IN /\ calls'[c].pc = "done"
               /\ calls'[c].audio = "none" /\ calls'[c].url = "none"
               /\ audioRef' = audioRef
               /\ hasSynthesis =>
                    /\ calls'[c].utt = "queued"
                    /\ calls'[c].utterance =
                         [text |-> in.text, lang |-> o.languageCode, rate |-> o.rate,
                          pitch |-> o.pitch, volume |-> o.volume]
                    /\ synthQueue' = Append(synthQueue, c)]_vars
  /\ [](\A c \in CallIds :
          ~calls[c].opts.useBackend =>
            (calls[c].pc = "done" /\ calls[c].audio = "none"))

\* "Namaste" was spoken by synthesis in te-IN with the requested rate, pitch and volume
C21_Witness ==
  \E c \in CallIds :
    /\ ~calls[c].opts.useBackend
    /\ calls[c].utterance =
         [text |-> "Namaste", lang |-> "te-IN", rate |-> 10, pitch |-> 12, volume |-> 5]
    /\ calls[c].utt = "ended"

\* the language subtag of a locale: the text before its first hyphen
RECURSIVE LanguageOf(_)
LanguageOf(locale) ==
  IF locale = "" \/ Head(locale) = "-" THEN "" ELSE Head(locale) \o LanguageOf(Tail(locale))

SameLanguage(v, languageCode) == LanguageOf(v.lang) = LanguageOf(languageCode)
HighQuality(v) == Includes(v.name, "Google")
VoiceSet == {voices[i] : i \in 1..Len(voices)}

\* C22: the utterance speak() queues has a voice of the requested language whose name
\* signals quality if the platform lists one, else a listed voice of the requested
\* language if there is one, else no voice (the platform default).
C22_VoiceSelection ==
  [][\A in \in VoiceInputs :
       speak(in) =>
         LET l == WithDefaults(in.options).languageCode
             v == calls'[Len(calls) + 1].voice
         IN IF \E w \in VoiceSet : SameLanguage(w, l) /\ HighQuality(w)
            THEN v \in VoiceSet /\ SameLanguage(v, l) /\ HighQuality(v)
            ELSE IF \E w \in VoiceSet : SameLanguage(w, l)
            THEN v \in VoiceSet /\ SameLanguage(v, l)
            ELSE v = NoVoice]_vars

\* a Telugu request on a platform that lists the plain Telugu voice before the
\* Google one, and an English request afterwards served by a plain voice
C22_Witness ==
  /\ Len(calls) = 2
  /\ calls[1].opts.languageCode = "te-IN" /\ calls[1].voice.name = "Google Telugu"
  /\ calls[2].opts.languageCode = "en-IN" /\ calls[2].voice.name = "Daniel"

\* C23: speaking is true whenever a backend audio is playing or an utterance is
\* being spoken.
C23_SpeakingWhileSounding ==
  (PlayingAudios # {} \/ SpokenUtterances # {}) => isSpeaking

\* C24: once stopSpeaking() has run while the only call is still waiting for its
\* render response, that response creates no audio and queues no utterance.
C24_NothingStartsAfterStop ==
  [][(Len(calls) = 1 /\ calls[1].pc = "fetch" /\ ~isSpeaking /\ Len(calls') = 1) =>
       (calls'[1].audio = "none" /\ calls'[1].utt = "none")]_vars

\* C25: from an accepted startListening() until the session's end event a further
\* startListening() changes neither the transcripts nor the error nor the
\* recognizer.
C25_OneStartPerSession ==
  [][\A lang \in Languages :
       (recState # "idle" /\ startListening(lang)) =>
          UNCHANGED <<transcript, interimTranscript, finalTranscriptRef, speechError,
                      recState, recLang>>]_vars

\* C26: in the legacy hook, while an utterance of speak() is being spoken
\* isSpeaking is true, so the Listen/Stop toggle stops it.
C26_SpeakingWhileSpoken ==
  LegacySpoken # {} => legacyIsSpeaking

\* C27: once stopRecording() has settled, with text or because the
\* speech-to-text request failed, and after cancelRecording(), every microphone
\* track acquired is stopped and isRecording and isProcessing are false.
MicrophoneReleased ==
  /\ ~isRecording
  /\ ~isProcessing
  /\ \A r \in RecordingIds : recordings[r].tracks # "live"

C27_SettledReleasesMicrophone ==
  [][\A r \in RecordingIds :
       (speechToTextResolves(r) \/ speechToTextRejects(r) \/ cancelRecording) =>
          MicrophoneReleased']_vars

\* C28: in App at most one chat request is in flight at any time.
C28_OneRequestInFlight ==
  Cardinality(InFlight) <= 1

\* C29: the practice state shown with a lesson belongs to the load that set the
\* lesson: the exercises on screen are the ones fetched for the current lesson.
C29_PracticeBelongsToLesson ==
  ExerciseViewShown => \A i \in 1..Len(exercises) : exercises[i].load = currentLesson

\* C30: whenever the exercise view is shown, 0 <= currentExercise <
\* exercises.length; nextExercise() advances by exactly one and clears showResults
\* when not at the last exercise, and changes nothing at the last exercise.
C30_IndexInRange ==
  ExerciseViewShown => (0 <= currentExercise /\ currentExercise < Len(exercises))

C30_NextExerciseStep ==
  nextExercise =>
    IF currentExercise < Len(exercises) - 1
    THEN /\ currentExercise' = currentExercise + 1
         /\ ~showResults'
         /\ UNCHANGED <<currentLesson, exercises, userAnswers, loading>>
    ELSE UNCHANGED <<currentLesson, exercises, currentExercise, userAnswers, loading,
                     showResults>>

C30_ExerciseIndex ==
  /\ []C30_IndexInRange
  /\ [][C30_NextExerciseStep]_vars

\* nextExercise() has advanced to the last of several exercises, with results shown
C30_Witness ==
  /\ ExerciseViewShown
  /\ currentExercise >= 1
  /\ currentExercise = Len(exercises) - 1
  /\ showResults

=============================================================================
